---- MODULE Spec2Model ----
(***************************************************************************)
(* Classification evaluation of fiftyone/utils/eval/classification.py.     *)
(*                                                                         *)
(* A dataset is a sequence of samples.  Each sample carries a ground truth *)
(* label, a predicted label, a prediction confidence and the prediction's  *)
(* logits; any of them may be None.  Confidences and scores are fixed      *)
(* point numbers in hundredths (One = 1.0).  Sequences are 1-based here,   *)
(* so position i of the model is index i-1 of the Python lists.            *)
(***************************************************************************)
EXTENDS Integers, Sequences, FiniteSets, TLC

VARIABLES samples, evalField, pc, call, classes, results, error,
          correct, accuracy

vars == <<samples, evalField, pc, call, classes, results, error,
          correct, accuracy>>

\* ---------------------------------------------------------------- bounds
MaxSamples == 2
MaxK == 3

\* ------------------------------------------------------------ the values
\* Python's None, for a label
None == "None"
\* Python's None, for a confidence
NoneConf == -1
\* 1.0 in hundredths
One == 100
\* a prediction without logits
NoLogits == [populated |-> FALSE, vals |-> <<>>]

\* the label strings, listed in the order of Python's str comparison
LabelOrder == <<"cat", "dog", "none">>

Range(s) == {s[i] : i \in 1..Len(s)}

Labels == Range(LabelOrder)

\* position of a label in the order of str.__lt__
Rank(l) == CHOOSE i \in 1..Len(LabelOrder) : LabelOrder[i] = l

RECURSIVE sorted(_)
sorted(S) ==
    IF S = {} THEN <<>>
    ELSE LET m == CHOOSE x \in S : \A y \in S : Rank(x) <= Rank(y)
         IN <<m>> \o sorted(S \ {m})

\* foa.Values(path) over the collection
ValuesGt(coll) == [i \in 1..Len(coll) |-> coll[i].gt]
ValuesPred(coll) == [i \in 1..Len(coll) |-> coll[i].pred]
ValuesConf(coll) == [i \in 1..Len(coll) |-> coll[i].conf]
ValuesLogits(coll) == [i \in 1..Len(coll) |-> coll[i].logits]

\* ------------------------------------------------------- pure functions
CleanLabelsKeepNone(y, missing) ==
    [yclean |-> y,
     found_missing |-> \E i \in 1..Len(y) : y[i] = None]

_clean_labels(y, missing) ==
    [yclean |-> [i \in 1..Len(y) |-> IF y[i] = None THEN missing ELSE y[i]],
     found_missing |-> \E i \in 1..Len(y) : y[i] = None]

_parse_labels(ytrue, ypred, cls, missing) ==
    LET t == _clean_labels(ytrue, missing)
        p == _clean_labels(ypred, missing)
        found_missing == t.found_missing \/ p.found_missing
    IN [ytrue |-> t.yclean,
        ypred |-> p.yclean,
        classes |-> IF found_missing /\ missing \notin Range(cls)
                    THEN cls \o <<missing>> ELSE cls]

ToBinaryScoresFullConf(y, confs, pos_label) ==
    [i \in 1..(IF Len(y) <= Len(confs) THEN Len(y) ELSE Len(confs)) |->
        LET conf == IF confs[i] = NoneConf THEN One ELSE confs[i]
        IN IF y[i] = pos_label THEN conf ELSE One - conf]

_to_binary_scores(y, confs, pos_label) ==
    [i \in 1..(IF Len(y) <= Len(confs) THEN Len(y) ELSE Len(confs)) |->
        LET conf == IF confs[i] = NoneConf THEN 0 ELSE confs[i]
        IN IF y[i] = pos_label THEN conf ELSE One - conf]

ObservedClassesTrueOnly(ytrue, ypred) == sorted(Range(ytrue) \ {None})

\* classes = set(ytrue) | set(ypred); classes.discard(None); sorted(classes)
ObservedClasses(ytrue, ypred) ==
    sorted((Range(ytrue) \cup Range(ypred)) \ {None})

SetFieldCorrectNullNeverEqual(ytrue, ypred) ==
    [i \in 1..Len(ytrue) |->
        {ytrue[i] # None /\ ypred[i] # None /\ ytrue[i] = ypred[i]}]

\* samples.set_field(eval_field, F(gt) == F(pred)).save(eval_field)
SetFieldCorrect(ytrue, ypred) ==
    [i \in 1..Len(ytrue) |-> {ytrue[i] = ypred[i]}]

\* the F().switch(...) of evaluate_binary_classifications
SetFieldBinary(ytrue, ypred, pos_label) ==
    [i \in 1..Len(ytrue) |->
        {IF ytrue[i] = pos_label
         THEN (IF ypred[i] = pos_label THEN "TP" ELSE "FN")
         ELSE (IF ypred[i] # pos_label THEN "TN" ELSE "FP")}]

\* ClassificationResults.__init__
ClassificationResults(ytrue, ypred, confs, cls, missing) ==
    LET p == _parse_labels(ytrue, ypred, cls, missing)
    IN [ytrue |-> p.ytrue, ypred |-> p.ypred, confs |-> confs,
        classes |-> p.classes, missing |-> missing, scores |-> <<>>]

\* BinaryClassificationResults.__init__; scores are computed from the
\* constructor's ypred argument, not from the cleaned self.ypred
BinaryClassificationResults(ytrue, ypred, confs, cls) ==
    [ClassificationResults(ytrue, ypred, confs, cls, cls[1])
        EXCEPT !.scores = _to_binary_scores(ypred, confs, cls[2])]

\* ---------------------------------------------------------- the state
NoResults == [ytrue |-> <<>>, ypred |-> <<>>, confs |-> <<>>,
              classes |-> <<>>, missing |-> "", scores |-> <<>>]

NoCall == [op |-> "", classes_given |-> FALSE, classes |-> <<>>,
           missing |-> "", eval_field |-> FALSE, k |-> 0]

Datasets(S) == UNION {[1..n -> S] : n \in 0..MaxSamples}

InitWith(S) ==
    /\ samples \in Datasets(S)
    /\ evalField = [i \in 1..Len(samples) |-> {}]
    /\ pc = "idle"
    /\ call = NoCall
    /\ classes = <<>>
    /\ results = NoResults
    /\ error = ""
    /\ correct = <<>>
    /\ accuracy = <<>>

\* ------------------------------------------- evaluate_classifications
ClsSamples ==
    [gt : Labels \cup {None}, pred : Labels \cup {None},
     conf : {NoneConf, 30}, logits : {NoLogits}]

ClsClassesArgs == {<<"cat", "dog">>}
ClsMissingArgs == {"none", "cat"}

evaluate_classifications(given, cls, missing, eval_field) ==
    LET ytrue == ValuesGt(samples)
        ypred == ValuesPred(samples)
        confs == ValuesConf(samples)
        used == IF given THEN cls ELSE ObservedClasses(ytrue, ypred)
    IN /\ pc = "idle"
       /\ call' = [op |-> "evaluate_classifications",
                   classes_given |-> given, classes |-> cls,
                   missing |-> missing, eval_field |-> eval_field, k |-> 0]
       /\ evalField' = IF eval_field THEN SetFieldCorrect(ytrue, ypred)
                       ELSE evalField
       /\ classes' = used
       /\ results' = ClassificationResults(ytrue, ypred, confs, used, missing)
       /\ pc' = "done"
       /\ UNCHANGED <<samples, error, correct, accuracy>>

Init == InitWith(ClsSamples)

Next ==
    \E missing \in ClsMissingArgs, eval_field \in BOOLEAN :
        \/ evaluate_classifications(FALSE, <<>>, missing, eval_field)
        \/ \E cls \in ClsClassesArgs :
              evaluate_classifications(TRUE, cls, missing, eval_field)

Spec == Init /\ [][Next]_vars

\* ------------------------------------ evaluate_binary_classifications
BinSamples ==
    [gt : {None, "cat", "dog"}, pred : {None, "cat", "dog"},
     conf : {NoneConf, 0, 30}, logits : {NoLogits}]

\* the (neg_label, pos_label) pairs
BinClassesArgs == {<<"cat", "dog">>, <<"dog", "cat">>}

evaluate_binary_classifications(cls, eval_field) ==
    LET pos_label == cls[Len(cls)]
        ytrue == ValuesGt(samples)
        ypred == ValuesPred(samples)
        confs == ValuesConf(samples)
    IN /\ pc = "idle"
       /\ call' = [op |-> "evaluate_binary_classifications",
                   classes_given |-> TRUE, classes |-> cls,
                   missing |-> cls[1], eval_field |-> eval_field, k |-> 0]
       /\ evalField' = IF eval_field
                       THEN SetFieldBinary(ytrue, ypred, pos_label)
                       ELSE evalField
       /\ classes' = cls
       /\ results' = BinaryClassificationResults(ytrue, ypred, confs, cls)
       /\ pc' = "done"
       /\ UNCHANGED <<samples, error, correct, accuracy>>

InitBinary == InitWith(BinSamples)

NextBinary ==
    \E cls \in BinClassesArgs, eval_field \in BOOLEAN :
        evaluate_binary_classifications(cls, eval_field)

SpecBinary == InitBinary /\ [][NextBinary]_vars

\* ------------------------------------- evaluate_top_k_classifications
LogitsArgs == {<<1, 2>>, <<2, 2>>, <<3, 1, 2>>}

TopKSamples ==
    [gt : Labels \cup {None}, pred : {None}, conf : {NoneConf},
     logits : {NoLogits}
                \cup {[populated |-> TRUE, vals |-> v] : v \in LogitsArgs}]

TopKClassesArgs == {<<"cat", "dog">>, <<"cat", "dog", "none">>}

\* {label: idx for idx, label in enumerate(classes)}: the last index of a
\* repeated label wins
targets_map(cls) ==
    [l \in Range(cls) |->
        CHOOSE i \in 1..Len(cls) :
            cls[i] = l /\ \A j \in (i + 1)..Len(cls) : cls[j] # l]

TargetOrDefault(tmap, label) ==
    [raised |-> FALSE,
     idx |-> IF label \in DOMAIN tmap THEN tmap[label] ELSE 0]

\* target = targets_map[_label], which raises KeyError for an unknown label
target_of(tmap, label) ==
    IF label \in DOMAIN tmap
    THEN [raised |-> FALSE, idx |-> tmap[label]]
    ELSE [raised |-> TRUE, idx |-> 0]

\* np.argpartition(_logits, -k)[-k:]: the positions of k largest logits;
\* which of several equal logits are taken is not specified
top_k_sets(vals, k) ==
    {T \in SUBSET (1..Len(vals)) :
        /\ Cardinality(T) = k
        /\ \A a \in T : \A b \in (1..Len(vals)) \ T : vals[a] >= vals[b]}

\* one iteration of the scoring loop: the outcomes for one sample
score_sample(label, lg, k, tmap) ==
    IF lg.populated
    THEN LET target == target_of(tmap, label)
         IN IF target.raised THEN {[error |-> "KeyError", c |-> FALSE]}
            ELSE IF k > Len(lg.vals)
                 THEN {[error |-> "ValueError", c |-> FALSE]}
                 ELSE {[error |-> "", c |-> target.idx \in T] :
                          T \in top_k_sets(lg.vals, k)}
    ELSE {[error |-> "", c |-> FALSE]}

\* the scoring loop from sample i on: the possible lists of correct flags,
\* or the error that ends the loop
RECURSIVE score_from(_, _, _, _, _)
score_from(ytrue, logits, k, tmap, i) ==
    IF i > Len(ytrue) THEN {[error |-> "", correct |-> <<>>]}
    ELSE UNION {
            IF h.error # "" THEN {[error |-> h.error, correct |-> <<>>]}
            ELSE {IF r.error # "" THEN r
                  ELSE [error |-> "", correct |-> <<h.c>> \o r.correct] :
                     r \in score_from(ytrue, logits, k, tmap, i + 1)} :
            h \in score_sample(ytrue[i], logits[i], k, tmap)}

\* np.mean(correct) as <<number of True, number of samples>>
mean(flags) ==
    <<Cardinality({i \in 1..Len(flags) : flags[i]}), Len(flags)>>

evaluate_top_k_classifications(k, cls, eval_field) ==
    LET ytrue == ValuesGt(samples)
        logits == ValuesLogits(samples)
    IN /\ pc = "idle"
       /\ call' = [op |-> "evaluate_top_k_classifications",
                   classes_given |-> TRUE, classes |-> cls,
                   missing |-> "", eval_field |-> eval_field, k |-> k]
       /\ classes' = cls
       /\ \E out \in score_from(ytrue, logits, k, targets_map(cls), 1) :
             IF out.error # ""
             THEN /\ pc' = "failed"
                  /\ error' = out.error
                  /\ UNCHANGED <<evalField, correct, accuracy>>
             ELSE /\ pc' = "done"
                  /\ correct' = out.correct
                  /\ evalField' =
                        IF eval_field
                        THEN [i \in 1..Len(samples) |-> {out.correct[i]}]
                        ELSE evalField
                  /\ accuracy' = mean(out.correct)
                  /\ UNCHANGED error
       /\ UNCHANGED <<samples, results>>

InitTopK == InitWith(TopKSamples)

NextTopK ==
    \E k \in 1..MaxK, cls \in TopKClassesArgs, eval_field \in BOOLEAN :
        evaluate_top_k_classifications(k, cls, eval_field)

SpecTopK == InitTopK /\ [][NextTopK]_vars

\* ------------------------------------------------------------- claims
ClsDone == pc = "done" /\ call.op = "evaluate_classifications"

\* C1: constructing ClassificationResults replaces every None label by the
\* missing string and changes nothing else: the stored ytrue and ypred are
\* as long as the inputs, hold no None, and keep every label that was not
\* None.
C1_OnlyNoneReplaced ==
    ClsDone =>
        /\ Len(results.ytrue) = Len(samples)
        /\ Len(results.ypred) = Len(samples)
        /\ \A i \in 1..Len(samples) :
              /\ results.ytrue[i] # None
              /\ results.ypred[i] # None
              /\ results.ytrue[i] =
                    (IF samples[i].gt = None THEN call.missing
                     ELSE samples[i].gt)
              /\ results.ypred[i] =
                    (IF samples[i].pred = None THEN call.missing
                     ELSE samples[i].pred)

C1_Witness ==
    /\ ClsDone
    /\ \E i, j \in 1..Len(samples) :
          /\ samples[i].gt = None /\ samples[i].pred \in Labels
          /\ samples[j].pred = None /\ samples[j].gt \in Labels
          /\ results.ytrue[i] = call.missing
          /\ results.ypred[j] = call.missing

ObservedLabels ==
    {samples[i].gt : i \in 1..Len(samples)}
        \cup {samples[i].pred : i \in 1..Len(samples)}

\* C2: with classes=None the classes used are the sorted list of the
\* distinct non-None labels occurring in ytrue or ypred, without duplicates
\* and without None, and every non-None label of every sample is a member
\* of the results' classes.
C2_ObservedClassesUsed ==
    (ClsDone /\ ~call.classes_given) =>
        /\ Range(classes) = ObservedLabels \ {None}
        /\ \A i, j \in 1..Len(classes) :
              i < j => Rank(classes[i]) < Rank(classes[j])
        /\ (ObservedLabels \ {None}) \subseteq Range(results.classes)

C2_Witness ==
    /\ ClsDone /\ ~call.classes_given
    /\ Len(samples) = 2
    /\ samples[1].gt = "dog" /\ samples[1].pred = None
    /\ samples[2].gt = "dog" /\ samples[2].pred = "cat"
    /\ classes = <<"cat", "dog">>

\* a sample with exactly one None label whose other label is the missing
\* string
Collides(i) ==
    \/ samples[i].gt = None /\ samples[i].pred = call.missing
    \/ samples[i].pred = None /\ samples[i].gt = call.missing

\* C4 as stated: with an eval_field, the recorded boolean of every sample
\* equals (results.ytrue[i] == results.ypred[i]).
C4_RecordAgreesWithResults ==
    (ClsDone /\ call.eval_field) =>
        \A i \in 1..Len(samples) :
            evalField[i] = {results.ytrue[i] = results.ypred[i]}

\* C4 amended: with an eval_field, the recorded boolean of every sample
\* equals the comparison of the sample's raw labels (None equal to None),
\* and it equals (results.ytrue[i] == results.ypred[i]) for every sample
\* except one that has exactly one None label and the missing string as
\* its other label.
C4_RecordIsRawComparison ==
    (ClsDone /\ call.eval_field) =>
        \A i \in 1..Len(samples) :
            /\ evalField[i] = {samples[i].gt = samples[i].pred}
            /\ ~Collides(i) =>
                  evalField[i] = {results.ytrue[i] = results.ypred[i]}

C4_Witness ==
    /\ ClsDone /\ call.eval_field
    /\ \E i, j \in 1..Len(samples) :
          /\ samples[i].gt = None /\ samples[i].pred = None
          /\ evalField[i] = {TRUE}
          /\ samples[j].gt = None /\ samples[j].pred \in Labels
          /\ ~Collides(j)
          /\ evalField[j] = {FALSE}

BinDone == pc = "done" /\ call.op = "evaluate_binary_classifications"

\* C3: in BinaryClassificationResults a None ground truth or prediction
\* label is stored as the negative class classes[0], and a sample whose
\* prediction label and confidence are both None gets the score of a
\* sample predicted as classes[0] with confidence 0.
C3_MissingIsNegative ==
    BinDone =>
        \A i \in 1..Len(samples) :
            /\ samples[i].gt = None => results.ytrue[i] = call.classes[1]
            /\ samples[i].pred = None => results.ypred[i] = call.classes[1]
            /\ (samples[i].pred = None /\ samples[i].conf = NoneConf) =>
                  /\ results.scores[i] = One - 0
                  /\ \A j \in 1..Len(samples) :
                        (samples[j].pred = call.classes[1]
                            /\ samples[j].conf = 0)
                        => results.scores[i] = results.scores[j]

C3_Witness ==
    /\ BinDone
    /\ \E i, j \in 1..Len(samples) :
          /\ samples[i].gt = None
          /\ samples[i].pred = None /\ samples[i].conf = NoneConf
          /\ samples[j].pred = call.classes[1] /\ samples[j].conf = 0
          /\ results.ypred[i] = call.classes[1]
          /\ results.scores[j] = One

TopKCalled == call.op = "evaluate_top_k_classifications"

\* a sample on which the scoring loop raises
Raises(i) ==
    /\ samples[i].logits.populated
    /\ \/ samples[i].gt \notin Range(call.classes)
       \/ call.k > Len(samples[i].logits.vals)

====
